---- MODULE Spec2Model ----
(***************************************************************************)
(* Proma renderer: the model context-window cache                          *)
(* (setModelContextWindow / getModelContextWindow) and the AskUserBanner   *)
(* request queue (pendingAskUserRequests, handleSubmit).                   *)
(*                                                                         *)
(* Strings are sequences of one-character strings, so that trim() and      *)
(* toLowerCase() are computed and not assumed.  A JavaScript number is a   *)
(* record: NaN, +Infinity, -Infinity, or the finite value n / Scale.       *)
(***************************************************************************)
EXTENDS Integers, Sequences, FiniteSets, TLC

VARIABLES cache, lastOp,
          requests, nextId, answers, submitting, rendered, effectDep,
          inflight, lastCall, lastDone

registryVars == <<cache, lastOp>>
bannerVars == <<requests, nextId, answers, submitting, rendered, effectDep,
                inflight, lastCall, lastDone>>
vars == <<cache, lastOp, requests, nextId, answers, submitting, rendered,
          effectDep, inflight, lastCall, lastDone>>

(***************************************************************************)
(* Bounds of the model.                                                    *)
(***************************************************************************)
\* longest model identifier enumerated exhaustively
MaxIdLen == 1
\* finite windows are n / Scale for n in -1 .. MaxWin
MaxWin == 2
Scale == 2
\* requests ever enqueued, and respondAskUser calls awaited at once
MaxRequests == 3
MaxInflight == 2

(***************************************************************************)
(* Strings.                                                                *)
(***************************************************************************)
Chars == {"a", "A", " "}

RECURSIVE SeqsUpTo(_)
SeqsUpTo(n) ==
  IF n = 0 THEN {<<>>}
  ELSE LET shorter == SeqsUpTo(n - 1)
       IN shorter \cup {Append(s, c) : s \in shorter, c \in Chars}

\* identifiers tried: every string up to MaxIdLen, and some longer ones with
\* whitespace on both sides and inside
ModelIds ==
  SeqsUpTo(MaxIdLen)
    \cup {<<" ", "A">>, <<"a", " ">>, <<"a", "A">>, <<" ", " ">>,
          <<" ", "A", " ">>, <<"a", " ", "A">>}

IsWhiteSpace(c) == c = " "

toLowerCaseChar(c) == IF c = "A" THEN "a" ELSE c

\* String.prototype.toLowerCase
toLowerCase(s) == [i \in 1..Len(s) |-> toLowerCaseChar(s[i])]

RECURSIVE trimStart(_)
trimStart(s) ==
  IF s # <<>> /\ IsWhiteSpace(Head(s)) THEN trimStart(Tail(s)) ELSE s

RECURSIVE trimEnd(_)
trimEnd(s) ==
  IF s # <<>> /\ IsWhiteSpace(s[Len(s)])
  THEN trimEnd(SubSeq(s, 1, Len(s) - 1))
  ELSE s

\* String.prototype.trim
trim(s) == trimEnd(trimStart(s))

(***************************************************************************)
(* Numbers.                                                                *)
(***************************************************************************)
NaN == [kind |-> "nan", n |-> 0]
PosInfinity == [kind |-> "posinf", n |-> 0]
NegInfinity == [kind |-> "neginf", n |-> 0]
Finite(n) == [kind |-> "fin", n |-> n]

Windows == {NaN, PosInfinity, NegInfinity} \cup {Finite(n) : n \in (0 - 1)..MaxWin}

\* Number.isFinite
NumberIsFinite(w) == w.kind = "fin"

\* LeqZero with the comparison written as w < 0
LeqZeroStrict(w) ==
  CASE w.kind = "fin" -> w.n < 0
    [] w.kind = "neginf" -> TRUE
    [] OTHER -> FALSE

\* w <= 0 (false for NaN, as every comparison with NaN)
LeqZero(w) ==
  CASE w.kind = "fin" -> w.n <= 0
    [] w.kind = "neginf" -> TRUE
    [] OTHER -> FALSE

\* Math.floor of a finite number: the integer floor of n / Scale
MathFloor(w) == w.n \div Scale

(***************************************************************************)
(* The context-window cache.                                               *)
(***************************************************************************)
\* new Map<string, number>()
EmptyMap == [k \in {} |-> 0]

\* MapSet that builds a new map holding the written entry alone
MapSetAlone(m, k, v) == [x \in {k} |-> v]

\* Map.prototype.set
MapSet(m, k, v) == [x \in DOMAIN m \cup {k} |-> IF x = k THEN v ELSE m[x]]

\* the result of Map.prototype.get: a number, or undefined
Undefined == [found |-> FALSE, value |-> 0]
Value(v) == [found |-> TRUE, value |-> v]

MapGet(m, k) == IF k \in DOMAIN m THEN Value(m[k]) ELSE Undefined

normalizeModelId(modelId) == toLowerCase(trim(modelId))

\* setModelContextWindow that keeps the value a key already has
setModelContextWindowKeepFirst(c, modelId, contextWindow) ==
  IF modelId = <<>> THEN c
  ELSE IF ~NumberIsFinite(contextWindow) \/ LeqZero(contextWindow) THEN c
  ELSE IF normalizeModelId(modelId) \in DOMAIN c THEN c
  ELSE MapSet(c, normalizeModelId(modelId), MathFloor(contextWindow))

\* the cache after setModelContextWindow(modelId, contextWindow) on cache c
setModelContextWindow(c, modelId, contextWindow) ==
  IF modelId = <<>> THEN c
  ELSE IF ~NumberIsFinite(contextWindow) \/ LeqZero(contextWindow) THEN c
  ELSE MapSet(c, normalizeModelId(modelId), MathFloor(contextWindow))

\* getModelContextWindow that lowercases the id without trimming it
getModelContextWindowNoTrim(c, modelId) ==
  IF modelId = <<>> THEN Undefined
  ELSE MapGet(c, toLowerCase(modelId))

\* what getModelContextWindow(modelId) returns on cache c
getModelContextWindow(c, modelId) ==
  IF modelId = <<>> THEN Undefined
  ELSE MapGet(c, normalizeModelId(modelId))

NoOp == [op |-> "none", modelId |-> <<>>, contextWindow |-> NaN, result |-> Undefined]

RegistryInit ==
  /\ cache = EmptyMap
  /\ lastOp = NoOp

SetModelContextWindow ==
  \E modelId \in ModelIds, contextWindow \in Windows :
    /\ cache' = setModelContextWindow(cache, modelId, contextWindow)
    /\ lastOp' = [op |-> "set", modelId |-> modelId,
                  contextWindow |-> contextWindow, result |-> Undefined]
    /\ UNCHANGED bannerVars

GetModelContextWindow ==
  \E modelId \in ModelIds :
    /\ lastOp' = [op |-> "get", modelId |-> modelId, contextWindow |-> NaN,
                  result |-> getModelContextWindow(cache, modelId)]
    /\ UNCHANGED cache
    /\ UNCHANGED bannerVars

RegistryNext == SetModelContextWindow \/ GetModelContextWindow

(***************************************************************************)
(* AskUserBanner.                                                          *)
(*                                                                         *)
(* requests is the pendingAskUserRequests atom, answers and submitting are *)
(* the component's state.  The handlers of the banner are closures of the  *)
(* last render: they read rendered (the request, answers and submitting    *)
(* that render saw), and their set-state calls change the state, which the *)
(* next Render makes visible to the handlers.                              *)
(***************************************************************************)
\* option labels of every question, and the texts typed into the input
Labels == {<<"x">>, <<"y">>}
Texts == {<<>>, <<" ">>, <<"a", " ">>}

\* AskUserQuestion: only multiSelect decides what a handler does
Question(multi) == [multiSelect |-> multi]
QuestionSets == {<<Question(FALSE)>>, <<Question(TRUE)>>}

\* requests[0] ?? null : null is the request with requestId 0
NoRequest == [requestId |-> 0, questions |-> <<>>]

\* CurrentRequest that shows the newest request
CurrentRequestNewest(reqs) == IF reqs = <<>> THEN NoRequest ELSE reqs[Len(reqs)]

\* the request the banner shows
CurrentRequest(reqs) == IF reqs = <<>> THEN NoRequest ELSE reqs[1]

\* { selected: [], customText: '', showCustom: false }
DefaultAnswer == [selected |-> <<>>, customText |-> <<>>, showCustom |-> FALSE]

getAnswer(ans, idx) == IF idx \in DOMAIN ans THEN ans[idx] ELSE DefaultAnswer

\* Array.prototype.includes
Includes(seq, x) == \E i \in 1..Len(seq) : seq[i] = x

\* prev.selected.filter((s) => s !== label)
FilterOut(seq, x) == SelectSeq(seq, LAMBDA e : e # x)

\* the updater of toggleOption
toggleOptionUpdater(question, label, prev) ==
  IF question.multiSelect
  THEN [selected |-> IF Includes(prev.selected, label)
                     THEN FilterOut(prev.selected, label)
                     ELSE Append(prev.selected, label),
        customText |-> <<>>,
        showCustom |-> FALSE]
  ELSE [selected |-> <<label>>, customText |-> <<>>, showCustom |-> FALSE]

\* the updater of toggleCustom
toggleCustomUpdater(prev) ==
  [selected |-> IF prev.showCustom THEN prev.selected ELSE <<>>,
   customText |-> prev.customText,
   showCustom |-> ~prev.showCustom]

\* Array.prototype.join(', ')
RECURSIVE Join(_)
Join(seq) ==
  IF seq = <<>> THEN <<>>
  ELSE IF Len(seq) = 1 THEN seq[1]
  ELSE seq[1] \o <<",", " ">> \o Join(Tail(seq))

\* question indexes of a request, from 0 as in the code
Indexes(request) == 0..(Len(request.questions) - 1)

\* the question has an entry in answersRecord
Answered(a) == (a.showCustom /\ trim(a.customText) # <<>>) \/ Len(a.selected) > 0

\* answersRecord as handleSubmit builds it from the render's request and answers
answersRecord(request, ans) ==
  [i \in {j \in Indexes(request) : Answered(getAnswer(ans, j))} |->
     IF getAnswer(ans, i).showCustom /\ trim(getAnswer(ans, i).customText) # <<>>
     THEN trim(getAnswer(ans, i).customText)
     ELSE Join(getAnswer(ans, i).selected)]

hasValidAnswers(request, ans) ==
  \E idx \in Indexes(request) :
    \/ Len(getAnswer(ans, idx).selected) > 0
    \/ getAnswer(ans, idx).showCustom /\ Len(trim(getAnswer(ans, idx).customText)) > 0

\* prev.filter((r) => r.requestId !== request.requestId)
removeResponded(prev, requestId) == SelectSeq(prev, LAMBDA r : r.requestId # requestId)

RemoveAt(seq, i) == SubSeq(seq, 1, i - 1) \o SubSeq(seq, i + 1, Len(seq))

NoCall == [requestId |-> 0, answers |-> EmptyMap]
NoneDone == [requestId |-> 0, ok |-> FALSE]

BannerInit ==
  /\ requests = <<>>
  /\ nextId = 1
  /\ answers = EmptyMap
  /\ submitting = FALSE
  /\ rendered = [request |-> NoRequest, answers |-> EmptyMap, submitting |-> FALSE]
  /\ effectDep = 0
  /\ inflight = <<>>
  /\ lastCall = NoCall
  /\ lastDone = NoneDone

\* A new request reaches the atom: the banner's queue is appended to at its
\* tail, and requestIds are unique (here: the rank of the request in the order
\* of arrival).
Enqueue ==
  /\ nextId <= MaxRequests
  /\ \E questions \in QuestionSets :
       requests' = Append(requests, [requestId |-> nextId, questions |-> questions])
  /\ nextId' = nextId + 1
  /\ UNCHANGED <<answers, submitting, rendered, effectDep, inflight, lastCall, lastDone>>
  /\ UNCHANGED registryVars

\* The component function runs: the handlers now close over the current state.
\* The effects of the previous render have run before.
Render ==
  /\ effectDep = rendered.request.requestId
  /\ rendered' = [request |-> CurrentRequest(requests), answers |-> answers,
                  submitting |-> submitting]
  /\ UNCHANGED <<requests, nextId, answers, submitting, effectDep, inflight, lastCall, lastDone>>
  /\ UNCHANGED registryVars

\* useEffect(() => setAnswers(new Map()), [request?.requestId])
ResetAnswersEffect ==
  /\ effectDep # rendered.request.requestId
  /\ answers' = EmptyMap
  /\ effectDep' = rendered.request.requestId
  /\ UNCHANGED <<requests, nextId, submitting, rendered, inflight, lastCall, lastDone>>
  /\ UNCHANGED registryVars

\* updateAnswer: the updater is applied to the render's answer of the question
updateAnswer(idx, newAnswer) ==
  /\ answers' = MapSet(answers, idx, newAnswer)
  /\ UNCHANGED <<requests, nextId, submitting, rendered, effectDep, inflight, lastCall, lastDone>>
  /\ UNCHANGED registryVars

ToggleOption ==
  /\ rendered.request # NoRequest
  /\ \E idx \in Indexes(rendered.request), label \in Labels :
       updateAnswer(idx, toggleOptionUpdater(rendered.request.questions[idx + 1], label,
                                             getAnswer(rendered.answers, idx)))

ToggleCustom ==
  /\ rendered.request # NoRequest
  /\ \E idx \in Indexes(rendered.request) :
       updateAnswer(idx, toggleCustomUpdater(getAnswer(rendered.answers, idx)))

\* onChange of the custom-text input, which is there when showCustom
CustomTextChange ==
  /\ rendered.request # NoRequest
  /\ \E idx \in Indexes(rendered.request), text \in Texts :
       /\ getAnswer(rendered.answers, idx).showCustom
       /\ updateAnswer(idx, [getAnswer(rendered.answers, idx) EXCEPT !.customText = text])

\* handleSubmit up to its await: the guard, setSubmitting(true), the answers
\* record and the call of respondAskUser
handleSubmit ==
  IF rendered.submitting
  THEN UNCHANGED vars
  ELSE /\ Len(inflight) < MaxInflight
       /\ submitting' = TRUE
       /\ inflight' = Append(inflight, rendered.request.requestId)
       /\ lastCall' = [requestId |-> rendered.request.requestId,
                       answers |-> answersRecord(rendered.request, rendered.answers)]
       /\ UNCHANGED <<requests, nextId, answers, rendered, effectDep, lastDone>>
       /\ UNCHANGED registryVars

\* a click on the confirm button, which is disabled when
\* submitting || !hasValidAnswers
ClickSubmit ==
  /\ rendered.request # NoRequest
  /\ ~(rendered.submitting \/ ~hasValidAnswers(rendered.request, rendered.answers))
  /\ handleSubmit

\* Enter (without Shift) in the custom-text input of a question
EnterSubmit ==
  /\ rendered.request # NoRequest
  /\ \E idx \in Indexes(rendered.request) : getAnswer(rendered.answers, idx).showCustom
  /\ handleSubmit

\* respondAskUser resolves: the rest of the try block, then finally
RespondResolved ==
  \E i \in 1..Len(inflight) :
    /\ requests' = removeResponded(requests, inflight[i])
    /\ submitting' = FALSE
    /\ inflight' = RemoveAt(inflight, i)
    /\ lastDone' = [requestId |-> inflight[i], ok |-> TRUE]
    /\ UNCHANGED <<nextId, answers, rendered, effectDep, lastCall>>
    /\ UNCHANGED registryVars

\* respondAskUser rejects: catch, then finally
RespondRejected ==
  \E i \in 1..Len(inflight) :
    /\ submitting' = FALSE
    /\ inflight' = RemoveAt(inflight, i)
    /\ lastDone' = [requestId |-> inflight[i], ok |-> FALSE]
    /\ UNCHANGED <<requests, nextId, answers, rendered, effectDep, lastCall>>
    /\ UNCHANGED registryVars

Init == RegistryInit /\ BannerInit

Next == RegistryNext

Spec == Init /\ [][Next]_vars

BannerNext ==
  \/ Enqueue
  \/ Render
  \/ ResetAnswersEffect
  \/ ToggleOption
  \/ ToggleCustom
  \/ CustomTextChange
  \/ ClickSubmit
  \/ EnterSubmit
  \/ RespondResolved
  \/ RespondRejected

BannerSpec == Init /\ [][BannerNext]_vars

(***************************************************************************)
(* What the claims speak of, stated without the operators above.           *)
(***************************************************************************)
NonEmptyIds == ModelIds \ {<<>>}

\* positions of the characters of s that are not whitespace
InkAt(s) == {i \in 1..Len(s) : s[i] # " "}

FirstInk(s) == CHOOSE i \in InkAt(s) : \A j \in InkAt(s) : i <= j
LastInk(s) == CHOOSE i \in InkAt(s) : \A j \in InkAt(s) : j <= i

FoldCase(c) == IF c \in {"a", "A"} THEN "a" ELSE c

\* a and b are equal after trimming surrounding whitespace and lowercasing
SameKey(a, b) ==
  IF InkAt(a) = {} \/ InkAt(b) = {} THEN InkAt(a) = {} /\ InkAt(b) = {}
  ELSE LET fa == FirstInk(a)
           fb == FirstInk(b)
           span == LastInk(a) - fa
       IN /\ span = LastInk(b) - fb
          /\ \A i \in 0..span : FoldCase(a[fa + i]) = FoldCase(b[fb + i])

\* the window is a finite number greater than zero
AcceptedWindow(w) == w.kind = "fin" /\ w.n > 0

\* floor(w): the integer k with k <= n / Scale < k + 1
FloorOf(w) == CHOOSE k \in (0 - 1)..MaxWin : k * Scale <= w.n /\ w.n < (k + 1) * Scale

\* the step is a record call that the contract accepts
AcceptedRecord(op) ==
  op.op = "set" /\ op.modelId # <<>> /\ AcceptedWindow(op.contextWindow)

\* C1: last-write-wins read-after-write.  Every lookup of a non-empty id is
\* not-found initially; a record call with a non-empty modelId and a finite
\* window > 0 makes the lookup of every id with the same normalized key return
\* floor(window), and leaves every other lookup as it was; a record call that
\* is not accepted, and a lookup, leave every lookup as it was.  Hence a
\* lookup returns floor(w) of the most recent accepted record call to its key.
C1_Step ==
  /\ lastOp'.op = "set" =>
       \A q \in NonEmptyIds :
         getModelContextWindow(cache', q) =
           IF AcceptedRecord(lastOp') /\ SameKey(q, lastOp'.modelId)
           THEN Value(FloorOf(lastOp'.contextWindow))
           ELSE getModelContextWindow(cache, q)
  /\ lastOp'.op = "get" =>
       /\ lastOp'.result = getModelContextWindow(cache, lastOp'.modelId)
       /\ \A q \in NonEmptyIds :
            getModelContextWindow(cache', q) = getModelContextWindow(cache, q)

C1_LastWriteWins ==
  /\ \A q \in NonEmptyIds : getModelContextWindow(cache, q) = Undefined
  /\ [][C1_Step]_vars

\* C1 witness: an accepted record call under a spelling that differs from its
\* key has just been made, with other keys present, and the value it wrote
\* differs from another key's value
C1_Witness ==
  /\ AcceptedRecord(lastOp)
  /\ lastOp.modelId # normalizeModelId(lastOp.modelId)
  /\ Cardinality(DOMAIN cache) >= 3
  /\ \E k \in DOMAIN cache : cache[k] # FloorOf(lastOp.contextWindow)
  /\ getModelContextWindow(cache, lastOp.modelId) = Value(FloorOf(lastOp.contextWindow))

\* C2: key normalization is shared by both operations.  Two non-empty ids that
\* are equal after trim + lowercase always look up to the same result, and
\* right after an accepted record under a, the lookup of every such b returns
\* floor(w).
C2_SharedNormalization ==
  /\ \A a \in NonEmptyIds, b \in NonEmptyIds :
       SameKey(a, b) => getModelContextWindow(cache, a) = getModelContextWindow(cache, b)
  /\ AcceptedRecord(lastOp) =>
       \A b \in NonEmptyIds :
         SameKey(lastOp.modelId, b) =>
           getModelContextWindow(cache, b) = Value(FloorOf(lastOp.contextWindow))

\* C2 witness: a value recorded under an upper-case, space-padded id is found
\* under a different spelling of the same key
C2_Witness ==
  /\ AcceptedRecord(lastOp)
  /\ lastOp.modelId = <<" ", "A", " ">>
  /\ getModelContextWindow(cache, <<"a", " ">>) = Value(FloorOf(lastOp.contextWindow))

\* the record call is invalid: empty modelId, or a window that is NaN,
\* +/-Infinity, zero or negative
InvalidRecord(op) ==
  /\ op.op = "set"
  /\ \/ op.modelId = <<>>
     \/ op.contextWindow.kind \in {"nan", "posinf", "neginf"}
     \/ op.contextWindow.kind = "fin" /\ op.contextWindow.n <= 0

\* C3: a record call with an empty modelId or with a window that is NaN,
\* +/-Infinity, zero or negative leaves the whole registry unchanged.
C3_InvalidIsNoOp == [][InvalidRecord(lastOp') => cache' = cache]_vars

\* C3 witness: an invalid record call has been made on a non-empty registry,
\* to a key that is present
C3_Witness ==
  /\ InvalidRecord(lastOp)
  /\ lastOp.modelId # <<>>
  /\ normalizeModelId(lastOp.modelId) \in DOMAIN cache
  /\ Cardinality(DOMAIN cache) >= 2

\* C4: every value held in the registry is a positive integer (>= 1).
C4_ValuesPositive == \A k \in DOMAIN cache : cache[k] >= 1

\* C5: every key held in the registry is a non-empty string.
C5_KeysNonEmpty == \A k \in DOMAIN cache : k # <<>>

\* C6: entries are never removed.  The set of keys only grows, and a lookup
\* that returns a value keeps returning a value.
C6_NeverRemoved ==
  [][/\ DOMAIN cache \subseteq DOMAIN cache'
     /\ \A q \in ModelIds :
          getModelContextWindow(cache, q).found => getModelContextWindow(cache', q).found]_vars

\* C6 witness: a lookup has found a value in a registry holding several keys
C6_Witness ==
  /\ lastOp.op = "get"
  /\ lastOp.result.found
  /\ Cardinality(DOMAIN cache) >= 3

\* the step calls respondAskUser / sees one of its calls complete
CallsRespond == Len(inflight') > Len(inflight)
CallCompletes == Len(inflight') < Len(inflight)

RequestIds(reqs) == {reqs[i].requestId : i \in 1..Len(reqs)}

\* C7: pending requests are served in FIFO order, one at a time.  A render
\* shows the head of the queue; a response is sent for the request shown, never
\* while a request enqueued before it is pending, and never for a request
\* enqueued before one already responded to; a resolved response removes the
\* request responded to and nothing else, the others keeping their order; a
\* rejected response removes nothing.
C7_Step ==
  /\ rendered' # rendered =>
       rendered'.request = IF Len(requests) = 0 THEN NoRequest ELSE requests[1]
  /\ CallsRespond =>
       /\ lastCall'.requestId = rendered.request.requestId
       /\ \A i \in 1..Len(requests) : requests[i].requestId >= lastCall'.requestId
       /\ lastCall'.requestId >= lastCall.requestId
  /\ CallCompletes /\ lastDone'.ok =>
       LET gone == {i \in 1..Len(requests) : requests[i].requestId = lastDone'.requestId}
       IN /\ Cardinality(gone) <= 1
          /\ Len(requests') = Len(requests) - Cardinality(gone)
          /\ \A i \in 1..Len(requests') :
               requests'[i] = requests[IF \E j \in gone : j <= i THEN i + 1 ELSE i]
  /\ CallCompletes /\ ~lastDone'.ok => requests' = requests

C7_Fifo == [][C7_Step]_vars

\* C7 witness: request 1 was responded to and removed while requests 2 and 3
\* stayed in order, and request 2, now the head, is being responded to
C7_Witness ==
  /\ lastDone = [requestId |-> 1, ok |-> TRUE]
  /\ Len(requests) = 2
  /\ requests[1].requestId = 2
  /\ requests[2].requestId = 3
  /\ inflight = <<2>>
  /\ lastCall.requestId = 2

\* C8: at most one respondAskUser call is outstanding at any time.
C8_OneOutstanding == Len(inflight) <= 1

\* C9: respondAskUser is never called with an empty answers record.
C9_AnswersNotEmpty == lastCall # NoCall => DOMAIN lastCall.answers # {}

====
